---- MODULE Spec2Model ----
(***************************************************************************)
(* Rice-husk circular-economy simulator.                                   *)
(*                                                                         *)
(* Three programs share one formula pipeline:                              *)
(*   variant A  Rice_Web_App.py / Rice_Web_App_updated.py  (Streamlit      *)
(*              script, time-integrated methane model, no function)        *)
(*   variant B  Rice_Web_App_OLD_BACKUP.py.py  calculate(...)              *)
(*              updated_gui_ricehusk.py        RiceHuskMath.calculate(...) *)
(*   the desktop window ModernApp of updated_gui_ricehusk.py               *)
(*                                                                         *)
(* Numbers.  Python floats are modelled bit for bit: IEEE 754 binary64     *)
(* values, each operation rounded to nearest with ties to even and carried *)
(* out in the order of the source.  Python ints are modelled by the float  *)
(* of the same value: every int of these programs is far below 2^53, so    *)
(* their int arithmetic is exact in floats.  -0.0 is not told from 0.0     *)
(* (they are equal in Python).                                             *)
(***************************************************************************)
EXTENDS Integers, Sequences, FiniteSets, TLC

(***************************************************************************)
(* Natural numbers of any size: little-endian sequences of limbs below     *)
(* Base, without high zero limbs (the number 0 is the empty sequence).     *)
(* Every intermediate value stays below 2^31.                              *)
(***************************************************************************)
LimbBits == 14
Base == 16384

Limb(a, i) == IF i <= Len(a) THEN a[i] ELSE 0

RECURSIVE BNorm(_)
BNorm(a) ==
    IF a = <<>> THEN a
    ELSE IF a[Len(a)] = 0 THEN BNorm(SubSeq(a, 1, Len(a) - 1)) ELSE a

RECURSIVE BFromInt(_)
BFromInt(n) == IF n = 0 THEN <<>> ELSE <<n % Base>> \o BFromInt(n \div Base)

RECURSIVE BToInt(_)
BToInt(a) == IF a = <<>> THEN 0 ELSE a[1] + Base * BToInt(Tail(a))

\* the number of bits of a limb
BitLenInt(n) == IF n = 0 THEN 0 ELSE CHOOSE k \in 1 .. LimbBits : 2 ^ (k - 1) <= n /\ n < 2 ^ k

BitLen(a) == IF a = <<>> THEN 0 ELSE LimbBits * (Len(a) - 1) + BitLenInt(a[Len(a)])

\* -1, 0 or 1 as a < b, a = b, a > b; i runs down from the top limb
RECURSIVE BCmpFrom(_, _, _)
BCmpFrom(a, b, i) ==
    IF i = 0 THEN 0
    ELSE IF a[i] < b[i] THEN -1
    ELSE IF a[i] > b[i] THEN 1
    ELSE BCmpFrom(a, b, i - 1)

BCmp(a, b) ==
    IF Len(a) < Len(b) THEN -1
    ELSE IF Len(a) > Len(b) THEN 1
    ELSE BCmpFrom(a, b, Len(a))

RECURSIVE BAddFrom(_, _, _, _)
BAddFrom(a, b, i, carry) ==
    IF i > Len(a) /\ i > Len(b)
    THEN IF carry = 0 THEN <<>> ELSE <<carry>>
    ELSE <<(Limb(a, i) + Limb(b, i) + carry) % Base>>
         \o BAddFrom(a, b, i + 1, (Limb(a, i) + Limb(b, i) + carry) \div Base)

BAdd(a, b) == BAddFrom(a, b, 1, 0)

\* a - b for a >= b
RECURSIVE BSubFrom(_, _, _, _)
BSubFrom(a, b, i, borrow) ==
    IF i > Len(a) THEN <<>>
    ELSE <<(a[i] - Limb(b, i) - borrow + Base) % Base>>
         \o BSubFrom(a, b, i + 1, IF a[i] - Limb(b, i) - borrow < 0 THEN 1 ELSE 0)

BSub(a, b) == BNorm(BSubFrom(a, b, 1, 0))

\* a * k for 0 <= k <= Base
RECURSIVE BMulSmallFrom(_, _, _, _)
BMulSmallFrom(a, k, i, carry) ==
    IF i > Len(a)
    THEN BFromInt(carry)
    ELSE <<(a[i] * k + carry) % Base>>
         \o BMulSmallFrom(a, k, i + 1, (a[i] * k + carry) \div Base)

BMulSmall(a, k) == IF k = 0 THEN <<>> ELSE BMulSmallFrom(a, k, 1, 0)

Zeros(n) == [i \in 1 .. n |-> 0]

RECURSIVE BMulFrom(_, _, _)
BMulFrom(a, b, i) ==
    IF i > Len(b) THEN <<>>
    ELSE BAdd(IF b[i] = 0 THEN <<>> ELSE Zeros(i - 1) \o BMulSmall(a, b[i]),
              BMulFrom(a, b, i + 1))

BMul(a, b) == BMulFrom(a, b, 1)

\* a * 2^bits
BShl(a, bits) ==
    IF a = <<>> THEN a
    ELSE Zeros(bits \div LimbBits) \o BMulSmall(a, 2 ^ (bits % LimbBits))

\* the limbs above the lowest `low` ones of a, divided by k for 0 < k <= Base;
\* i runs down from the top limb
RECURSIVE BDivSmallFrom(_, _, _, _, _)
BDivSmallFrom(a, k, i, rem, low) ==
    IF i = low THEN <<>>
    ELSE BDivSmallFrom(a, k, i - 1, (rem * Base + a[i]) % k, low)
         \o <<(rem * Base + a[i]) \div k>>

\* a \div 2^bits
BShr(a, bits) ==
    IF bits \div LimbBits >= Len(a) THEN <<>>
    ELSE BNorm(BDivSmallFrom(a, 2 ^ (bits % LimbBits), Len(a), 0, bits \div LimbBits))

\* bit number k of a, the lowest being bit 0
BBit(a, k) == (Limb(a, k \div LimbBits + 1) \div 2 ^ (k % LimbBits)) % 2

\* a is a multiple of 2^bits
BLowZero(a, bits) ==
    /\ \A i \in 1 .. bits \div LimbBits : Limb(a, i) = 0
    /\ Limb(a, bits \div LimbBits + 1) % 2 ^ (bits % LimbBits) = 0

\* q or q + 1: the integer nearest to a / 2^bits, a tie going to the even
\* one, for q = a \div 2^bits; inexact says that a itself was rounded down
\* from a value that was not an integer
BRoundUp(a, bits, inexact, q) ==
    IF /\ BBit(a, bits - 1) = 1
       /\ \/ inexact
          \/ ~BLowZero(a, bits - 1)
          \/ Limb(q, 1) % 2 = 1
    THEN BAdd(q, <<1>>)
    ELSE q

BRoundShr(a, bits, inexact) ==
    IF bits = 0 THEN a ELSE BRoundUp(a, bits, inexact, BShr(a, bits))

\* long division (Knuth's algorithm D) of rem * Base^n by d, for rem < d and
\* d's top limb at least Base / 2, which makes the first guess of a digit at
\* most 2 too large; q collects the digits, and there is a final remainder
DivGuess(top, dtop) == IF top \div dtop > Base - 1 THEN Base - 1 ELSE top \div dtop

DivFix(n, d, guess) == IF BCmp(BMulSmall(d, guess), n) > 0 THEN guess - 1 ELSE guess

RECURSIVE DivDigits(_, _, _, _)
DivDigit(n, d, n_digits, q, digit) ==
    DivDigits(BSub(n, BMulSmall(d, digit)), d, n_digits - 1, <<digit>> \o q)

DivShifted(n, d, n_digits, q) ==
    DivDigit(n, d, n_digits, q,
             DivFix(n, d, DivFix(n, d,
                 DivGuess(Limb(n, Len(d) + 1) * Base + Limb(n, Len(d)), d[Len(d)]))))

DivDigits(rem, d, n_digits, q) ==
    IF n_digits = 0 THEN [q |-> BNorm(q), rem |-> rem]
    ELSE DivShifted(IF rem = <<>> THEN rem ELSE <<0>> \o rem, d, n_digits, q)

(***************************************************************************)
(* Python floats: IEEE 754 binary64, round to nearest, ties to even.  A    *)
(* float is [s, e, m]: sign bit s, and the value m * 2^e of its magnitude, *)
(* with 2^52 <= m < 2^53; zero is [0, 0, <<>>].  Python ints, all far      *)
(* below 2^53 here, are the floats of the same value.  Subnormal numbers,  *)
(* infinities and NaN are out of reach of the programs' arithmetic.        *)
(***************************************************************************)
Precision == 53

FZero == [s |-> 0, e |-> 0, m |-> <<>>]

\* outcome of a division by zero (Python raises ZeroDivisionError)
ZeroDivision == [s |-> 2, e |-> 0, m |-> <<>>]

\* the float (-1)^s * q * 2^e for q of 53 bits, or of 54 when rounding has
\* carried into a new bit: then q = 2^53
FPack(s, q, e) ==
    IF BitLen(q) > Precision
    THEN [s |-> s, e |-> e + 1, m |-> BShr(q, 1)]
    ELSE [s |-> s, e |-> e, m |-> q]

FRoundLen(s, n, e, inexact, len) ==
    IF len <= Precision
    THEN [s |-> s, e |-> e - (Precision - len), m |-> BShl(n, Precision - len)]
    ELSE FPack(s, BRoundShr(n, len - Precision, inexact), e + (len - Precision))

\* the float nearest to (-1)^s * n * 2^e, n a natural number other than 0;
\* inexact as for BRoundUp
FRound(s, n, e, inexact) == FRoundLen(s, n, e, inexact, BitLen(n))

\* the float of the int k
I(k) ==
    IF k = 0 THEN FZero
    ELSE FRound(IF k < 0 THEN 1 ELSE 0, BFromInt(IF k < 0 THEN -k ELSE k), 0, FALSE)

FNeg(a) == IF a.m = <<>> THEN a ELSE [a EXCEPT !.s = 1 - a.s]

FMul(a, b) ==
    IF a.m = <<>> \/ b.m = <<>> THEN FZero
    ELSE FRound((a.s + b.s) % 2, BMul(a.m, b.m), a.e + b.e, FALSE)

\* a / b: four digits after the leading one give the 55 or more quotient
\* bits that rounding needs
FDivRound(s, e, d) == FRound(s, d.q, e, d.rem # <<>>)

\* x / y for naturals of the same length with top limbs of Base / 2 or more:
\* the leading digit, 0 or 1, and four more
FDivFirst(s, e, x, y, ge) ==
    FDivRound(s, e, DivDigits(IF ge THEN BSub(x, y) ELSE x, y, 4,
                              IF ge THEN <<1>> ELSE <<0>>))

\* a / b: four digits after the leading one give the 55 or more quotient
\* bits that rounding needs
FDiv(a, b) ==
    IF b.m = <<>> THEN ZeroDivision
    ELSE IF a.m = <<>> THEN FZero
    ELSE FDivFirst((a.s + b.s) % 2, a.e - b.e - 4 * LimbBits,
                   BMulSmall(a.m, 8), BMulSmall(b.m, 8),
                   BCmp(a.m, b.m) >= 0)

\* (-1)^sx * x * 2^e + (-1)^sy * y * 2^e, for c the comparison of x with y
FAddAligned(sx, x, sy, y, e, c) ==
    IF sx = sy THEN FRound(sx, BAdd(x, y), e, FALSE)
    ELSE IF c = 0 THEN FZero
    ELSE IF c > 0 THEN FRound(sx, BSub(x, y), e, FALSE)
    ELSE FRound(sy, BSub(y, x), e, FALSE)

FAddShifted(sx, x, sy, y, e) == FAddAligned(sx, x, sy, y, e, BCmp(x, y))

FAdd(a, b) ==
    IF a.m = <<>> THEN b
    ELSE IF b.m = <<>> THEN a
    ELSE IF a.e < b.e
    THEN FAddShifted(a.s, a.m, b.s, BShl(b.m, b.e - a.e), a.e)
    ELSE FAddShifted(a.s, BShl(a.m, a.e - b.e), b.s, b.m, b.e)

FSub(a, b) == FAdd(a, FNeg(b))

\* -1, 0 or 1: the sign of a
Sign(a) == IF a.m = <<>> THEN 0 ELSE IF a.s = 1 THEN -1 ELSE 1

FLt(a, b) == Sign(FSub(a, b)) < 0
FLeq(a, b) == Sign(FSub(a, b)) <= 0

\* Python max(a, b)
FMax(a, b) == IF FLt(a, b) THEN b ELSE a

\* a float literal with the decimal value n/d, such as 0.22 = Lit(22, 100):
\* the float nearest to n/d
Lit(n, d) == FDiv(I(n), I(d))

Signed(s, n) == IF s = 1 THEN -n ELSE n

\* Python int(x): truncation toward zero
Trunc(a) ==
    IF a.m = <<>> THEN 0
    ELSE IF a.e >= 0 THEN Signed(a.s, BToInt(BShl(a.m, a.e)))
    ELSE Signed(a.s, BToInt(BShr(a.m, -a.e)))

\* the integer nearest to a * k (k a small natural number), a tie going to
\* the even one: round(a) for k = 1, the tenths printed by f"{a:.1f}" for
\* k = 10
RoundTimes(a, k) ==
    IF a.m = <<>> THEN 0
    ELSE IF a.e >= 0 THEN Signed(a.s, BToInt(BShl(BMulSmall(a.m, k), a.e)))
    ELSE Signed(a.s, BToInt(BRoundShr(BMulSmall(a.m, k), -a.e, FALSE)))

\* diff is at most 2^-40 times y in magnitude
Small(diff, y) == diff.m = <<>> \/ (y.m # <<>> /\ diff.e <= y.e - 40)

\* x is y up to a relative error of 2^-40
Near(x, y) == Small(FSub(x, y), y)

IsNumber(x) == x.s \in {0, 1}

(***************************************************************************)
(* Bounds: the values tried of each input                                  *)
(***************************************************************************)
\* the consecutive small areas tried run up to MaxSmallArea
MaxSmallArea == 3
\* the consecutive small season lengths typed run up to MaxSmallSeason
MaxSmallSeason == 2
\* the number of calls counted in a run of repeated calls
MaxCalls == 3

\* the widgets' ranges and start values
AREA_MIN == 1
AREA_MAX_A == 50
AREA_DEFAULT_A == 5
AREA_DEFAULT_OLD == 50
AREA_MAX_B == 100
YIELD_MIN == 2000
YIELD_DEFAULT == 4500
YIELD_MAX == 8000
EFF_MIN == 40
EFF_DEFAULT == 70
EFF_MAX == 90
SEASON_DEFAULT == 120
AREA_STEPS == 99
YIELD_STEPS == 60
EFF_STEPS == 50

(***************************************************************************)
(* Variant B, desktop engine: class RiceHuskMath                           *)
(***************************************************************************)
\* RiceHuskMath.__init__: the constants are attributes of the engine object
RiceHuskMath_init ==
    [HUSK_RATIO    |-> Lit(22, 100),
     LHV           |-> Lit(135, 10),
     GEN_EFF       |-> Lit(30, 100),
     BIOCHAR_YIELD |-> Lit(20, 100),
     EF_FLOODED    |-> I(30),
     EF_AWD        |-> I(16),
     PRICE_ELEC    |-> Lit(70, 10),
     PRICE_CHAR    |-> Lit(150, 10),
     CAPEX_PER_KW  |-> I(80000)]

\* GWP of methane, the literal 28 of both variants
GWP == 28

\* float literals of the calculations: 3.6 MJ per kWh, the 10% maintenance
\* share of capex, and the desktop engine's payback sentinel 99.9
MJ_PER_KWH == Lit(36, 10)
OPEX_SHARE == Lit(10, 100)
NO_PAYBACK == Lit(999, 10)

\* faulty variant of gui_total_husk: the wrong constant
gui_total_husk_wrong_ratio(self, total_paddy) == FMul(total_paddy, self.BIOCHAR_YIELD)

\* total_husk = total_paddy * self.HUSK_RATIO
gui_total_husk(self, total_paddy) == FMul(total_paddy, self.HUSK_RATIO)

\* faulty variant of gui_energy_mj: the generator efficiency left out
gui_energy_mj_no_gen_eff(self, total_husk, gasifier_eff) ==
    FMul(FMul(total_husk, self.LHV), gasifier_eff)

\* energy_mj = total_husk * self.LHV * gasifier_eff * self.GEN_EFF
gui_energy_mj(self, total_husk, gasifier_eff) ==
    FMul(FMul(FMul(total_husk, self.LHV), gasifier_eff), self.GEN_EFF)

\* faulty variant of gui_revenue: the electricity sales subtracted
gui_revenue_minus(self, energy_kwh, biochar_kg) ==
    FSub(FMul(biochar_kg, self.PRICE_CHAR), FMul(energy_kwh, self.PRICE_ELEC))

\* revenue = (energy_kwh * self.PRICE_ELEC) + (biochar_kg * self.PRICE_CHAR)
gui_revenue(self, energy_kwh, biochar_kg) ==
    FAdd(FMul(energy_kwh, self.PRICE_ELEC), FMul(biochar_kg, self.PRICE_CHAR))

\* faulty variant of gui_payback: the division without its guard
gui_payback_unguarded(capex, profit) == FDiv(capex, profit)

\* faulty variant of gui_payback: the old web app's sentinel 0 in place of 99.9
gui_payback_zero_sentinel(capex, profit) ==
    IF Sign(profit) > 0 THEN FDiv(capex, profit) ELSE I(0)

\* payback = capex / profit if profit > 0 else 99.9
gui_payback(capex, profit) ==
    IF Sign(profit) > 0 THEN FDiv(capex, profit) ELSE NO_PAYBACK

\* Step 1, mass balance
gui_step1(self, area, paddy_yield) ==
    LET total_paddy == FMul(area, paddy_yield)
    IN  [area |-> area, total_paddy |-> total_paddy,
         total_husk |-> gui_total_husk(self, total_paddy)]

\* Step 2, energy model
gui_step2(self, f, gasifier_eff) ==
    LET energy_mj == gui_energy_mj(self, f.total_husk, gasifier_eff)
    IN  f @@ [energy_mj |-> energy_mj, energy_kwh |-> FDiv(energy_mj, MJ_PER_KWH)]

\* Step 3, biochar model
gui_step3(self, f) ==
    f @@ [biochar_kg |-> FMul(f.total_husk, self.BIOCHAR_YIELD)]

\* Step 4, methane model
gui_step4(self, f) ==
    LET ch4_saved == FMul(f.area, FSub(self.EF_FLOODED, self.EF_AWD))
    IN  f @@ [ch4_saved |-> ch4_saved, co2_equivalent |-> FMul(ch4_saved, I(GWP))]

\* Step 5, economics: capacity and capex
gui_step5_capex(self, f) ==
    LET capacity_kw == FDiv(f.energy_kwh, I(1000))
    IN  f @@ [capacity_kw |-> capacity_kw,
              capex |-> FMul(FMax(capacity_kw, I(5)), self.CAPEX_PER_KW)]

\* Step 5, economics: revenue, opex and profit
gui_step5_profit(self, f) ==
    LET revenue == gui_revenue(self, f.energy_kwh, f.biochar_kg)
        opex    == FMul(f.capex, OPEX_SHARE)
    IN  f @@ [revenue |-> revenue, opex |-> opex, profit |-> FSub(revenue, opex)]

\* Step 5, economics: payback
gui_step5_payback(f) == f @@ [payback |-> gui_payback(f.capex, f.profit)]

\* the locals of RiceHuskMath.calculate when it reaches its return statement
RiceHuskMath_locals(self, area, paddy_yield, gasifier_eff) ==
    gui_step5_payback(gui_step5_profit(self, gui_step5_capex(self,
        gui_step4(self, gui_step3(self,
            gui_step2(self, gui_step1(self, area, paddy_yield), gasifier_eff))))))

\* no result: the value of a call that raised, or of no call at all
NoValue == <<>>

\* the outcome of RiceHuskMath.calculate: the exception it raises, if any
\* (its only fallible operation is the division capex / profit), and the
\* dictionary it returns
RiceHuskMath_return(f) ==
    IF f.payback = ZeroDivision
    THEN [raised |-> "ZeroDivisionError", value |-> NoValue]
    ELSE [raised |-> "none",
          value  |-> [energy |-> f.energy_kwh, biochar |-> f.biochar_kg,
                      co2 |-> f.co2_equivalent, revenue |-> f.revenue,
                      payback |-> f.payback]]

RiceHuskMath_calculate(self, area, paddy_yield, gasifier_eff) ==
    RiceHuskMath_return(RiceHuskMath_locals(self, area, paddy_yield, gasifier_eff))

\* faulty variant of RiceHuskMath_after: the call derates the generator
RiceHuskMath_after_derated(self) ==
    [self EXCEPT !.GEN_EFF = FMul(self.GEN_EFF, Lit(1, 2))]

\* the engine object after a call of calculate: the method assigns to no
\* attribute of self
RiceHuskMath_after(self) == self

(***************************************************************************)
(* Variant B, old web app: module-level calculate                          *)
(***************************************************************************)
\* the constants are locals, bound afresh by every call
calculate_constants ==
    [HUSK_RATIO    |-> Lit(22, 100),
     LHV           |-> Lit(135, 10),
     GEN_EFF       |-> Lit(30, 100),
     BIOCHAR_YIELD |-> Lit(20, 100),
     EF_FLOODED    |-> I(30),
     EF_AWD        |-> I(16),
     PRICE_ELEC    |-> Lit(70, 10),
     PRICE_CHAR    |-> Lit(150, 10),
     CAPEX_PER_KW  |-> I(80000)]

\* the husk taken as a fifth of the paddy
old_total_husk_wrong_ratio(total_paddy) == FMul(total_paddy, calculate_constants.BIOCHAR_YIELD)

\* total_husk = total_paddy * HUSK_RATIO
old_total_husk(total_paddy) == FMul(total_paddy, calculate_constants.HUSK_RATIO)

\* energy_mj = total_husk * LHV * gasifier_eff * GEN_EFF
old_energy_mj(total_husk, gasifier_eff) ==
    FMul(FMul(FMul(total_husk, calculate_constants.LHV), gasifier_eff),
         calculate_constants.GEN_EFF)

\* revenue = (energy_kwh * PRICE_ELEC) + (biochar_kg * PRICE_CHAR)
old_revenue(energy_kwh, biochar_kg) ==
    FAdd(FMul(energy_kwh, calculate_constants.PRICE_ELEC),
         FMul(biochar_kg, calculate_constants.PRICE_CHAR))

\* if profit > 0: payback = capex / profit  else: payback = 0
old_payback(capex, profit) ==
    IF Sign(profit) > 0 THEN FDiv(capex, profit) ELSE I(0)

\* mass balance
old_step1(area, paddy_yield) ==
    LET total_paddy == FMul(area, paddy_yield)
    IN  [area |-> area, total_paddy |-> total_paddy,
         total_husk |-> old_total_husk(total_paddy)]

\* Energy (Eq 2)
old_step2(f, gasifier_eff) ==
    LET energy_mj == old_energy_mj(f.total_husk, gasifier_eff)
    IN  f @@ [energy_mj |-> energy_mj, energy_kwh |-> FDiv(energy_mj, MJ_PER_KWH)]

\* Biochar (Eq 3)
old_step3(f) ==
    f @@ [biochar_kg |-> FMul(f.total_husk, calculate_constants.BIOCHAR_YIELD)]

\* Methane (Eq 1)
old_step4(f) ==
    LET ch4_saved == FMul(f.area, FSub(calculate_constants.EF_FLOODED,
                                       calculate_constants.EF_AWD))
    IN  f @@ [ch4_saved |-> ch4_saved, co2_eq |-> FMul(ch4_saved, I(GWP))]

\* Economics (Eq 4): capacity and capex
old_step5_capex(f) ==
    LET capacity_kw == FDiv(f.energy_kwh, I(1000))
    IN  f @@ [capacity_kw |-> capacity_kw,
              capex |-> FMul(FMax(capacity_kw, I(5)), calculate_constants.CAPEX_PER_KW)]

\* Economics (Eq 4): revenue, opex and profit
old_step5_profit(f) ==
    LET revenue == old_revenue(f.energy_kwh, f.biochar_kg)
        opex    == FMul(f.capex, OPEX_SHARE)
    IN  f @@ [revenue |-> revenue, opex |-> opex, profit |-> FSub(revenue, opex)]

\* Economics (Eq 4): payback
old_step5_payback(f) == f @@ [payback |-> old_payback(f.capex, f.profit)]

\* the locals of calculate when it reaches its return statement
calculate_locals(area, paddy_yield, gasifier_eff) ==
    old_step5_payback(old_step5_profit(old_step5_capex(
        old_step4(old_step3(
            old_step2(old_step1(area, paddy_yield), gasifier_eff))))))

\* the outcome of calculate: the exception it raises, if any, and the tuple
\* (energy_kwh, biochar_kg, co2_eq, revenue, payback) it returns
calculate_return(f) ==
    IF f.payback = ZeroDivision
    THEN [raised |-> "ZeroDivisionError", value |-> NoValue]
    ELSE [raised |-> "none",
          value  |-> <<f.energy_kwh, f.biochar_kg, f.co2_eq, f.revenue, f.payback>>]

calculate(area, paddy_yield, gasifier_eff) ==
    calculate_return(calculate_locals(area, paddy_yield, gasifier_eff))


(***************************************************************************)
(* Variant A: the Streamlit script Rice_Web_App.py (Rice_Web_App_updated.py *)
(* has the same constants and the same calculation block)                  *)
(***************************************************************************)
EF_FLOODED == Lit(130, 100)
EF_AWD == Lit(75, 100)
CV_HUSK == 14
BIOCHAR_YIELD == Lit(25, 100)
PRICE_ELEC == Lit(70, 10)
PRICE_CHAR == Lit(150, 10)
PRICE_CARBON_CREDIT == 2500

\* husk_mass = total_paddy * 0.22
a_husk_mass(total_paddy) == FMul(total_paddy, Lit(22, 100))

\* faulty variant of a_energy_mj: the efficiency left out
a_energy_mj_no_eff(husk_mass, efficiency) == FMul(husk_mass, I(CV_HUSK))

\* energy_mj = husk_mass * CV_HUSK * efficiency
a_energy_mj(husk_mass, efficiency) == FMul(FMul(husk_mass, I(CV_HUSK)), efficiency)

\* biochar_mass = husk_mass * BIOCHAR_YIELD
a_biochar_mass(husk_mass) == FMul(husk_mass, BIOCHAR_YIELD)

\* faulty variant of a_methane_avoided: the operands exchanged
a_methane_avoided_swapped(methane_flooded, methane_awd) == FSub(methane_awd, methane_flooded)

\* methane_avoided = methane_flooded - methane_awd
a_methane_avoided(methane_flooded, methane_awd) == FSub(methane_flooded, methane_awd)

\* total_revenue = revenue_elec + revenue_char + revenue_carbon
a_total_revenue(revenue_elec, revenue_char, revenue_carbon) ==
    FAdd(FAdd(revenue_elec, revenue_char), revenue_carbon)

\* 1. Mass Balance
a_step1(area, yield_per_ha) ==
    LET total_paddy == FMul(area, yield_per_ha)
    IN  [area |-> area, total_paddy |-> total_paddy,
         husk_mass |-> a_husk_mass(total_paddy)]

\* 2. Energy Model
a_step2(g, efficiency) ==
    LET energy_mj == a_energy_mj(g.husk_mass, efficiency)
    IN  g @@ [energy_mj |-> energy_mj, energy_kwh |-> FDiv(energy_mj, MJ_PER_KWH)]

\* 3. Biochar Model
a_step3(g) == g @@ [biochar_mass |-> a_biochar_mass(g.husk_mass)]

\* 4. Methane model: the two seasonal totals
a_step4_methane(g, season_days) ==
    g @@ [methane_flooded |-> FMul(FMul(EF_FLOODED, g.area), season_days),
          methane_awd     |-> FMul(FMul(EF_AWD, g.area), season_days)]

\* 4. Methane avoided and its CO2 equivalent
a_step4_co2(g) ==
    LET methane_avoided == a_methane_avoided(g.methane_flooded, g.methane_awd)
    IN  g @@ [methane_avoided |-> methane_avoided,
              co2_eq_tons |-> FDiv(FMul(methane_avoided, I(GWP)), I(1000))]

\* 4./5. the three revenue streams
a_step5_streams(g) ==
    g @@ [revenue_carbon |-> FMul(g.co2_eq_tons, I(PRICE_CARBON_CREDIT)),
          revenue_elec   |-> FMul(g.energy_kwh, PRICE_ELEC),
          revenue_char   |-> FMul(g.biochar_mass, PRICE_CHAR)]

\* 5. Financials: the total
a_step5_total(g) ==
    g @@ [total_revenue |-> a_total_revenue(g.revenue_elec, g.revenue_char, g.revenue_carbon)]

\* the module-level calculation block: the globals it has bound when it is
\* through, and the exception that stopped it (every division is by a
\* non-zero literal and nothing is checked: nothing raises)
Calculations(area, yield_per_ha, efficiency, season_days) ==
    a_step5_total(a_step5_streams(a_step4_co2(a_step4_methane(
        a_step3(a_step2(a_step1(area, yield_per_ha), efficiency)), season_days))))
    @@ [raised |-> "none"]

\* np.arange(start, stop, step) for ints and a step above 0
arange(start, stop, step) ==
    [i \in 1 .. (stop - start + step - 1) \div step |-> start + step * (i - 1)]

\* areas_range = np.arange(1, 51, 5)
areas_range == arange(1, 51, 5)

\* the scalar (EF_FLOODED - EF_AWD), computed once before it meets the array
EF_DIFFERENCE == FSub(EF_FLOODED, EF_AWD)

\* the literal 0.22 of the chart's revenue line
CHART_HUSK_RATIO == Lit(22, 100)

\* one element of
\* savings_range = (EF_FLOODED - EF_AWD) * areas_range * season_days * 28 / 1000
savings_point(a, season_days) ==
    FDiv(FMul(FMul(FMul(EF_DIFFERENCE, a), season_days), I(GWP)), I(1000))

\* one element of
\* revenue_range = areas_range * yield_per_ha * 0.22 * CV_HUSK * efficiency / 3.6 * PRICE_ELEC
revenue_point(a, yield_per_ha, efficiency) ==
    FMul(FDiv(FMul(FMul(FMul(FMul(a, yield_per_ha), CHART_HUSK_RATIO), I(CV_HUSK)), efficiency),
              MJ_PER_KWH),
         PRICE_ELEC)

\* GRAPH 2, scalability: the three arrays of the chart
Scalability(yield_per_ha, efficiency, season_days) ==
    [areas_range   |-> areas_range,
     savings_range |-> [i \in DOMAIN areas_range |->
                            savings_point(I(areas_range[i]), season_days)],
     revenue_range |-> [i \in DOMAIN areas_range |->
                            revenue_point(I(areas_range[i]), yield_per_ha, efficiency)]]

\* one run of the script from the widget values w: the sidebar yields
\* area, yield_per_ha, efficiency = slider / 100 and season_days; the
\* calculation block runs, then the chart is drawn
RunScript(w) ==
    Calculations(I(w.area), I(w.yield_per_ha), FDiv(I(w.eff_slider), I(100)), I(w.season_days))
    @@ Scalability(I(w.yield_per_ha), FDiv(I(w.eff_slider), I(100)), I(w.season_days))

(***************************************************************************)
(* The desktop window: class ModernApp                                     *)
(***************************************************************************)
\* a label's text: the number it shows and the text after it
Text(number, unit) == <<number, unit>>

\* what Image.open("rice_field.jpg") can raise
ImageErrors == {"FileNotFoundError", "UnidentifiedImageError"}

\* what the three statements after it in the try block can raise: CTkImage,
\* CTkLabel (where a truncated file is first decoded) and place
WidgetErrors == {"OSError", "RuntimeError"}

\* how the try block ends: its last statement done, or the statement that
\* raised (at) and the exception it raised (e)
ImageOutcomes ==
    {[at |-> "done", e |-> "none"]}
    \cup [at : {"Image.open"}, e : ImageErrors]
    \cup [at : {"CTkImage", "CTkLabel", "place"}, e : WidgetErrors]

\* self.bg_image = ctk.CTkImage(...) has been executed when the block ends
\* at a later statement
bg_image_bound(at) == at \in {"CTkLabel", "place", "done"}

\* self.bg_label = ctk.CTkLabel(...) has been executed when the block ends
\* at place or after it
bg_label_bound(at) == at \in {"place", "done"}

\* the attributes that the try block has bound when it ends at the statement at
try_background(self, at) ==
    IF bg_label_bound(at)
    THEN [self EXCEPT !.bg_image = "rice_field.jpg", !.widgets = @ \cup {"bg_label"}]
    ELSE IF bg_image_bound(at) THEN [self EXCEPT !.bg_image = "rice_field.jpg"]
    ELSE self

\* faulty variant of except_Exception: only the missing file is handled
except_FileNotFoundError(e) == e = "FileNotFoundError"

\* except Exception as e: every error of ImageErrors and of WidgetErrors is
\* an Exception
except_Exception(e) == e \in ImageErrors \cup WidgetErrors

\* CTkSlider(from_, to, number_of_steps) keeps its value on a step: set()
\* and a drag of the knob round the value they are given to
\*   to - round((to - value) / step_size) * step_size
\* with step_size = (to - from_) / number_of_steps
CTkSlider(from_, to, number_of_steps, value) ==
    LET step_size == FDiv(FSub(to, from_), I(number_of_steps))
    IN  FSub(to, FMul(I(RoundTimes(FDiv(FSub(to, value), step_size), 1)), step_size))

\* the three sliders of setup_controls, given the value value
slider_area(value) == CTkSlider(I(AREA_MIN), I(AREA_MAX_B), AREA_STEPS, value)
slider_yield(value) == CTkSlider(I(YIELD_MIN), I(YIELD_MAX), YIELD_STEPS, value)
slider_eff(value) == CTkSlider(Lit(EFF_MIN, 100), Lit(EFF_MAX, 100), EFF_STEPS, value)

\* a ModernApp before __init__ has set any attribute: widgets is the set of
\* the widget attributes that exist, and a widget that does not exist yet
\* has the value 0 and the text ""
NewApp ==
    [math_engine |-> NoValue, bg_image |-> "none", fg_color |-> "theme",
     printed |-> "none", widgets |-> {},
     slider_area |-> FZero, slider_yield |-> FZero, slider_eff |-> FZero,
     lbl_area |-> Text(0, ""), lbl_yield |-> Text(0, ""), lbl_eff |-> Text(0, ""),
     card_energy |-> Text(0, ""), card_char |-> Text(0, ""), card_co2 |-> Text(0, ""),
     card_money |-> Text(0, ""), lbl_payback |-> Text(0, "")]

\* the two frames of __init__
main_layout(self) ==
    [self EXCEPT !.widgets = @ \cup {"frame_controls", "frame_results"}]

\* setup_controls: the three sliders with their start values and labels
setup_controls(self) ==
    [self EXCEPT !.lbl_area = Text(1, "Ha"),
                 !.slider_area = slider_area(I(AREA_MIN)),
                 !.lbl_yield = Text(4500, "kg"),
                 !.slider_yield = slider_yield(I(YIELD_DEFAULT)),
                 !.lbl_eff = Text(70, "%"),
                 !.slider_eff = slider_eff(Lit(EFF_DEFAULT, 100)),
                 !.widgets = @ \cup {"lbl_area", "slider_area", "lbl_yield",
                                     "slider_yield", "lbl_eff", "slider_eff"}]

\* setup_results_dashboard: four cards reading "0" and the payback label
setup_results_dashboard(self) ==
    [self EXCEPT !.card_energy = Text(0, ""), !.card_char = Text(0, ""),
                 !.card_co2 = Text(0, ""),    !.card_money = Text(0, ""),
                 !.lbl_payback = Text(24, "tenths of Years"),
                 !.widgets = @ \cup {"card_energy", "card_char", "card_co2",
                                     "card_money", "lbl_payback"}]

\* pb_text of update_simulation
pb_text(pb) ==
    IF FLt(I(10), pb) THEN Text(10, "> Years")
    ELSE Text(RoundTimes(pb, 10), "tenths of Years")

\* update_simulation: read the sliders, rewrite the labels, call the engine,
\* rewrite the cards; an exception of the engine leaves the cards as they are
\* 2. Update Labels
update_labels(self, area, yld, eff) ==
    [self EXCEPT !.lbl_area = Text(Trunc(area), "Ha"),
                 !.lbl_yield = Text(Trunc(yld), "kg"),
                 !.lbl_eff = Text(Trunc(FMul(eff, I(100))), "%")]

\* 4. Update Result Cards
update_cards(self, results) ==
    IF results.raised # "none" THEN self
    ELSE [self EXCEPT
            !.card_energy = Text(Trunc(results.value.energy), "kWh"),
            !.card_char = Text(Trunc(results.value.biochar), "kg"),
            !.card_co2 = Text(Trunc(results.value.co2), "kg"),
            !.card_money = Text(Trunc(results.value.revenue), "INR"),
            !.lbl_payback = pb_text(results.value.payback)]

\* faulty variant of update_simulation: the cards are not rewritten
update_simulation_labels_only(self) ==
    update_labels(self, self.slider_area, self.slider_yield, self.slider_eff)

\* update_simulation: read the sliders, rewrite the labels, call the engine,
\* rewrite the cards
update_simulation(self) ==
    update_cards(
        [update_labels(self, self.slider_area, self.slider_yield, self.slider_eff)
            EXCEPT !.math_engine = RiceHuskMath_after(self.math_engine)],
        RiceHuskMath_calculate(self.math_engine, self.slider_area, self.slider_yield,
                               self.slider_eff))

(***************************************************************************)
(* State                                                                   *)
(***************************************************************************)
VARIABLES
    program,        \* which of the repository's programs is running
    \* variant A, the Streamlit script
    st,             \* the widget values: area, yield_per_ha, eff_slider, season_days
    script,         \* the globals bound by the latest run of the script
    \* variant B engine under direct calls
    math_engine,    \* the RiceHuskMath object (its constant attributes)
    args,           \* arguments of the most recent call
    gui_locals,     \* locals of RiceHuskMath.calculate at its return
    gui_ret,        \* outcome of RiceHuskMath.calculate
    old_locals,     \* locals of the module-level calculate at its return
    old_ret,        \* outcome of the module-level calculate
    first,          \* arguments and outcomes of the first call
    calls,          \* how many calls a run of repeated calls has made
    \* the desktop window
    pc,             \* where ModernApp is: a stage of __init__, or mainloop
    app             \* the attributes of the ModernApp object

varsA == <<st, script>>
varsB == <<math_engine, args, gui_locals, gui_ret, old_locals, old_ret, first, calls>>
varsGui == <<pc, app>>

vars == <<program, st, script, math_engine, args, gui_locals, gui_ret,
          old_locals, old_ret, first, calls, pc, app>>

IdleA == st = NoValue /\ script = NoValue
IdleB == /\ math_engine = NoValue /\ args = NoValue /\ gui_locals = NoValue
         /\ gui_ret = NoValue /\ old_locals = NoValue /\ old_ret = NoValue
         /\ first = NoValue /\ calls = 0
IdleGui == pc = "none" /\ app = NoValue

(***************************************************************************)
(* Variant A: every change of a widget reruns the whole script             *)
(***************************************************************************)
AreasA == (AREA_MIN .. MaxSmallArea) \cup {AREA_DEFAULT_A, AREA_MAX_A}
Yields == {YIELD_MIN, YIELD_DEFAULT, YIELD_MAX}
EffSliders == {EFF_MIN, EFF_DEFAULT, EFF_MAX}
\* number_input has no min_value: any integer can be typed
SeasonDays == (-1 .. MaxSmallSeason) \cup {SEASON_DEFAULT}

InitA ==
    /\ program = "Rice_Web_App"
    /\ st = [area |-> AREA_DEFAULT_A, yield_per_ha |-> YIELD_DEFAULT,
             eff_slider |-> EFF_DEFAULT, season_days |-> SEASON_DEFAULT]
    /\ script = RunScript(st)
    /\ IdleB /\ IdleGui

Rerun(w) ==
    /\ st' = w
    /\ script' = RunScript(w)
    /\ UNCHANGED <<program, varsB, varsGui>>

SetArea ==
    /\ program = "Rice_Web_App"
    /\ \E v \in AreasA : v # st.area /\ Rerun([st EXCEPT !.area = v])
SetYield ==
    /\ program = "Rice_Web_App"
    /\ \E v \in Yields : v # st.yield_per_ha /\ Rerun([st EXCEPT !.yield_per_ha = v])
SetEfficiency ==
    /\ program = "Rice_Web_App"
    /\ \E v \in EffSliders : v # st.eff_slider /\ Rerun([st EXCEPT !.eff_slider = v])
SetSeasonDays ==
    /\ program = "Rice_Web_App"
    /\ \E v \in SeasonDays : v # st.season_days /\ Rerun([st EXCEPT !.season_days = v])

NextA == SetArea \/ SetYield \/ SetEfficiency \/ SetSeasonDays

(***************************************************************************)
(* Variant B under direct calls: both implementations are called again and *)
(* again with the same arguments, from a bounded set that reaches beyond   *)
(* the sliders' ranges; one argument changes from a call to the next       *)
(***************************************************************************)
AreaArgs == (-1 .. MaxSmallArea) \cup {AREA_DEFAULT_OLD, AREA_MAX_B}
YieldArgs == {-YIELD_MIN} \cup Yields
\* efficiencies in percent; the argument passed is the fraction percent/100
EffArgs == {-10, 0, 300} \cup EffSliders

ArgsB == [area : AreaArgs, paddy_yield : YieldArgs, eff_pct : EffArgs]

\* the arguments of the old web app's first run
DefaultArgs == [area |-> AREA_DEFAULT_OLD, paddy_yield |-> YIELD_DEFAULT, eff_pct |-> EFF_DEFAULT]

\* a call of both variant-B implementations with the same arguments
FirstCall(a) ==
    /\ math_engine = RiceHuskMath_after(RiceHuskMath_init)
    /\ args = a
    /\ gui_locals = RiceHuskMath_locals(RiceHuskMath_init, I(a.area), I(a.paddy_yield),
                                        Lit(a.eff_pct, 100))
    /\ gui_ret = RiceHuskMath_return(gui_locals)
    /\ old_locals = calculate_locals(I(a.area), I(a.paddy_yield), Lit(a.eff_pct, 100))
    /\ old_ret = calculate_return(old_locals)
    /\ first = [args |-> a, gui_ret |-> gui_ret, old_ret |-> old_ret]
    /\ calls = 1

InitB ==
    /\ program = "calculate"
    /\ FirstCall(DefaultArgs)
    /\ IdleA /\ IdleGui

CallWith(a) ==
    /\ math_engine' = RiceHuskMath_after(math_engine)
    /\ args' = a
    /\ gui_locals' = RiceHuskMath_locals(math_engine, I(a.area), I(a.paddy_yield),
                                         Lit(a.eff_pct, 100))
    /\ gui_ret' = RiceHuskMath_return(gui_locals')
    /\ old_locals' = calculate_locals(I(a.area), I(a.paddy_yield), Lit(a.eff_pct, 100))
    /\ old_ret' = calculate_return(old_locals')
    /\ UNCHANGED <<program, first, varsA, varsGui>>

\* a call that differs from the one before in one argument
CalculateArea ==
    /\ program = "calculate"
    /\ \E v \in AreaArgs : v # args.area /\ CallWith([args EXCEPT !.area = v])
    /\ UNCHANGED calls

CalculateYield ==
    /\ program = "calculate"
    /\ \E v \in YieldArgs : v # args.paddy_yield /\ CallWith([args EXCEPT !.paddy_yield = v])
    /\ UNCHANGED calls

CalculateEff ==
    /\ program = "calculate"
    /\ \E v \in EffArgs : v # args.eff_pct /\ CallWith([args EXCEPT !.eff_pct = v])
    /\ UNCHANGED calls

(***************************************************************************)
(* Variant B under repeated calls: a first call with any of a few          *)
(* arguments, then MaxCalls - 1 more calls, the same arguments allowed     *)
(***************************************************************************)
RepeatArgs == [area : {-1, AREA_MIN, AREA_DEFAULT_A, AREA_DEFAULT_OLD},
               paddy_yield : {YIELD_DEFAULT, YIELD_MAX}, eff_pct : {EFF_DEFAULT}]

InitRepeat ==
    /\ program = "calculate"
    /\ \E a \in RepeatArgs : FirstCall(a)
    /\ IdleA /\ IdleGui

CalculateAgain ==
    /\ program = "calculate"
    /\ calls < MaxCalls
    /\ calls' = calls + 1
    /\ \E a \in RepeatArgs : CallWith(a)

SpecRepeat == InitRepeat /\ [][CalculateAgain]_vars

(***************************************************************************)
(* The desktop window: __init__ stage by stage, then the slider callbacks  *)
(***************************************************************************)
\* where the knob is dragged to: the value under the pointer, which the
\* slider rounds to a step; for the efficiency slider in thousandths, two of
\* them (0.573 and 0.58) off the start, the minimum and the maximum; for
\* the area slider the small areas, the maximum, and 6, the largest area
\* whose capacity stays under the capex floor of 5 kW at the largest yield
\* and the smallest efficiency
AreasGui == (AREA_MIN .. MaxSmallArea) \cup {6, AREA_MAX_B}
EffsGui == {573, 580} \cup {10 * e : e \in EffSliders}

InitGui ==
    /\ program = "ModernApp"
    /\ pc = "start"
    /\ app = NewApp
    /\ IdleA /\ IdleB

GuiStep(from, to, self) ==
    /\ program = "ModernApp"
    /\ pc = from
    /\ pc' = to
    /\ app' = self
    /\ UNCHANGED <<program, varsA, varsB>>

\* __init__ up to the engine's construction
CreateWindow ==
    /\ pc = "start"
    /\ GuiStep("start", "background", [app EXCEPT !.math_engine = RiceHuskMath_init])

\* the try block around the background image and its handler
LoadBackground ==
    /\ pc = "background"
    /\ \E o \in ImageOutcomes :
        IF o.e = "none"
        THEN GuiStep("background", "layout", try_background(app, o.at))
        ELSE IF except_Exception(o.e)
        THEN GuiStep("background", "layout",
                     [try_background(app, o.at) EXCEPT !.printed = o.e,
                                                       !.fg_color = "#1a1a1a"])
        ELSE GuiStep("background", "aborted",
                     [try_background(app, o.at) EXCEPT !.printed = o.e])

\* the two frames
BuildLayout ==
    /\ pc = "layout"
    /\ GuiStep("layout", "controls", main_layout(app))

SetupControls == pc = "controls" /\ GuiStep("controls", "results", setup_controls(app))

SetupResults == pc = "results" /\ GuiStep("results", "update", setup_results_dashboard(app))

\* the initial calculation that ends __init__
InitialUpdate == pc = "update" /\ GuiStep("update", "mainloop", update_simulation(app))

\* mainloop: a slider is moved and its command runs
MoveArea ==
    /\ pc = "mainloop"
    /\ \E v \in AreasGui : slider_area(I(v)) # app.slider_area /\
          GuiStep("mainloop", "mainloop",
                  update_simulation([app EXCEPT !.slider_area = slider_area(I(v))]))

MoveYield ==
    /\ pc = "mainloop"
    /\ \E v \in Yields : slider_yield(I(v)) # app.slider_yield /\
          GuiStep("mainloop", "mainloop",
                  update_simulation([app EXCEPT !.slider_yield = slider_yield(I(v))]))

MoveEff ==
    /\ pc = "mainloop"
    /\ \E v \in EffsGui : slider_eff(Lit(v, 1000)) # app.slider_eff /\
          GuiStep("mainloop", "mainloop",
                  update_simulation([app EXCEPT !.slider_eff = slider_eff(Lit(v, 1000))]))

(***************************************************************************)
(* One of the programs runs                                                *)
(***************************************************************************)
Init == InitA \/ InitB \/ InitGui

Next ==
    \/ SetArea \/ SetYield \/ SetEfficiency \/ SetSeasonDays
    \/ CalculateArea \/ CalculateYield \/ CalculateEff
    \/ CreateWindow \/ LoadBackground \/ BuildLayout \/ SetupControls
    \/ SetupResults \/ InitialUpdate \/ MoveArea \/ MoveYield \/ MoveEff

Spec == Init /\ [][Next]_vars

(***************************************************************************)
(* Properties                                                              *)
(***************************************************************************)
\* C1: in both variant-B implementations the payback is the sentinel (99.9
\* in the desktop engine, 0 in the old web app) whenever profit = revenue -
\* opex is <= 0, and capex / profit whenever profit > 0; no call divides by
\* zero, and the payback returned is never negative.
C1_PaybackGuard ==
    program = "calculate" =>
    /\ gui_ret.raised = "none" /\ old_ret.raised = "none"
    /\ gui_locals.profit = FSub(gui_locals.revenue, gui_locals.opex)
    /\ old_locals.profit = FSub(old_locals.revenue, old_locals.opex)
    /\ IsNumber(gui_ret.value.payback) /\ Sign(gui_ret.value.payback) >= 0
    /\ IsNumber(old_ret.value[5]) /\ Sign(old_ret.value[5]) >= 0
    /\ IF Sign(gui_locals.profit) <= 0
       THEN gui_ret.value.payback = Lit(999, 10)
       ELSE gui_ret.value.payback = FDiv(gui_locals.capex, gui_locals.profit)
    /\ IF Sign(old_locals.profit) <= 0
       THEN old_ret.value[5] = I(0)
       ELSE old_ret.value[5] = FDiv(old_locals.capex, old_locals.profit)

\* a call whose profit is negative has returned the sentinels
C1_Witness ==
    /\ program = "calculate"
    /\ Sign(gui_locals.profit) < 0 /\ Sign(old_locals.profit) < 0
    /\ gui_ret.value.payback = Lit(999, 10)
    /\ old_ret.value[5] = I(0)


\* the declared domain of the inputs
ValidA(w) ==
    /\ w.area >= 0 /\ w.yield_per_ha >= 0
    /\ w.eff_slider > 0 /\ w.eff_slider <= 100
    /\ w.season_days > 0
ValidB(a) ==
    /\ a.area >= 0 /\ a.paddy_yield >= 0
    /\ a.eff_pct > 0 /\ a.eff_pct <= 100

\* C2: an input outside the declared domain (negative area or yield,
\* efficiency outside (0,1], non-positive season length) is rejected: the
\* variant-A calculation block and both variant-B calculate end in an error
\* and yield no numbers.
C2_RejectsInvalid ==
    /\ (program = "Rice_Web_App" /\ ~ValidA(st)) => script.raised # "none"
    /\ (program = "calculate" /\ ~ValidB(args)) =>
            (gui_ret.raised # "none" /\ old_ret.raised # "none")

NonNegative(x) == IsNumber(x) /\ Sign(x) >= 0

\* C3: in variant A, when the season length is >= 0 (area, yield and
\* efficiency are confined to valid values by their sliders), every output
\* of the calculation block is non-negative.
C3_NonNegativeA ==
    (program = "Rice_Web_App" /\ st.area >= 0 /\ st.yield_per_ha >= 0
        /\ st.eff_slider > 0 /\ st.eff_slider <= 100 /\ st.season_days >= 0) =>
    /\ NonNegative(script.husk_mass) /\ NonNegative(script.energy_kwh)
    /\ NonNegative(script.biochar_mass)
    /\ NonNegative(script.methane_flooded) /\ NonNegative(script.methane_awd)
    /\ NonNegative(script.methane_avoided) /\ NonNegative(script.co2_eq_tons)
    /\ NonNegative(script.revenue_carbon) /\ NonNegative(script.revenue_elec)
    /\ NonNegative(script.revenue_char) /\ NonNegative(script.total_revenue)

\* a run with a positive season has avoided methane and earned revenue
C3_Witness ==
    /\ program = "Rice_Web_App"
    /\ st.season_days > 0
    /\ Sign(script.methane_avoided) > 0
    /\ Sign(script.revenue_carbon) > 0
    /\ Sign(script.total_revenue) > 0

\* a rerun of the script, or a new call, that raises the area or the yield
\* and leaves the other inputs as they were, all of them valid
RaisesAreaOrYieldA ==
    /\ program = "Rice_Web_App"
    /\ st.season_days >= 0 /\ st'.season_days = st.season_days
    /\ st'.eff_slider = st.eff_slider
    /\ \/ st'.area >= st.area /\ st'.yield_per_ha = st.yield_per_ha
       \/ st'.area = st.area /\ st'.yield_per_ha >= st.yield_per_ha
RaisesAreaOrYieldB ==
    /\ program = "calculate"
    /\ ValidB(args) /\ ValidB(args')
    /\ args'.eff_pct = args.eff_pct
    /\ \/ args'.area >= args.area /\ args'.paddy_yield = args.paddy_yield
       \/ args'.area = args.area /\ args'.paddy_yield >= args.paddy_yield

\* C4: energy, biochar mass and revenue do not decrease when the area or
\* the yield is raised and the other inputs are kept: total_revenue in
\* variant A, revenue in both variant-B calculate.
C4_Monotone ==
    [][/\ RaisesAreaOrYieldA =>
            /\ FLeq(script.energy_kwh, script'.energy_kwh)
            /\ FLeq(script.biochar_mass, script'.biochar_mass)
            /\ FLeq(script.total_revenue, script'.total_revenue)
       /\ RaisesAreaOrYieldB =>
            /\ FLeq(gui_ret.value.energy, gui_ret'.value.energy)
            /\ FLeq(gui_ret.value.biochar, gui_ret'.value.biochar)
            /\ FLeq(gui_ret.value.revenue, gui_ret'.value.revenue)
            /\ FLeq(old_ret.value[1], old_ret'.value[1])
            /\ FLeq(old_ret.value[2], old_ret'.value[2])
            /\ FLeq(old_ret.value[4], old_ret'.value[4])]_vars

\* the call after the first one has raised the area only, and the revenue
\* has grown
C4_Witness ==
    /\ program = "calculate"
    /\ args.area > first.args.area
    /\ args.paddy_yield = first.args.paddy_yield
    /\ args.eff_pct = first.args.eff_pct
    /\ FLt(first.gui_ret.value.revenue, gui_ret.value.revenue)
    /\ FLt(first.old_ret.value[1], old_ret.value[1])

\* C5: once the window is up, after any sequence of slider moves, the
\* three slider labels show the current slider values (the area and the
\* yield as they are, the efficiency as the percentage it is, up to float
\* rounding) and the four cards show the engine's results for the current
\* slider values, cut to integers.
C5_FreshRender ==
    (program = "ModernApp" /\ pc = "mainloop") =>
    LET r == RiceHuskMath_calculate(RiceHuskMath_init, app.slider_area,
                                    app.slider_yield, app.slider_eff).value
    IN  /\ app.lbl_area[2] = "Ha" /\ I(app.lbl_area[1]) = app.slider_area
        /\ app.lbl_yield[2] = "kg" /\ I(app.lbl_yield[1]) = app.slider_yield
        /\ app.lbl_eff[2] = "%" /\ Near(app.slider_eff, Lit(app.lbl_eff[1], 100))
        /\ app.card_energy = <<Trunc(r.energy), "kWh">>
        /\ app.card_char = <<Trunc(r.biochar), "kg">>
        /\ app.card_co2 = <<Trunc(r.co2), "kg">>
        /\ app.card_money = <<Trunc(r.revenue), "INR">>

\* all three sliders have been moved off their start values and the cards
\* show the results for where they stand
C5_Witness ==
    /\ program = "ModernApp" /\ pc = "mainloop"
    /\ app.slider_area = I(AREA_MAX_B)
    /\ app.slider_yield = I(YIELD_MAX)
    /\ app.slider_eff = Lit(EFF_MAX, 100)
    /\ app.card_energy = <<178200, "kWh">>
    /\ app.card_char = <<35200, "kg">>

\* C6: calculate is deterministic and stateless: a call with the arguments
\* of the first call returns what the first call returned, whatever calls
\* came between, and the engine's constants are never changed.
C6_Deterministic ==
    program = "calculate" =>
    /\ math_engine = RiceHuskMath_init
    /\ args = first.args => (gui_ret = first.gui_ret /\ old_ret = first.old_ret)

\* the third call repeats the arguments of the first and returns the same
C6_Witness ==
    /\ program = "calculate"
    /\ calls = MaxCalls
    /\ args = first.args
    /\ gui_ret = first.gui_ret /\ gui_ret.raised = "none"
    /\ old_ret = first.old_ret

\* the window is up: frames, sliders, cards and the first calculation
StartedUp ==
    /\ pc = "mainloop"
    /\ app.widgets \ {"bg_label"} = {"frame_controls", "frame_results",
                      "lbl_area", "slider_area", "lbl_yield", "slider_yield",
                      "lbl_eff", "slider_eff",
                      "card_energy", "card_char", "card_co2", "card_money",
                      "lbl_payback"}
    /\ app.card_energy[2] = "kWh" /\ app.card_char[2] = "kg"
    /\ app.card_co2[2] = "kg" /\ app.card_money[2] = "INR"

\* the try block of the background image ended in its handler
ImageFailed == program = "ModernApp" /\ app.printed \in ImageErrors \cup WidgetErrors

\* C7: when loading rice_field.jpg fails, at Image.open or at one of the
\* statements that put the image on the window, __init__ is not aborted: it
\* has set the fallback background colour and is at one of its later
\* stages, and the window it ends with has the frames, the sliders, the
\* cards and the results of the first update_simulation. When Image.open
\* itself failed neither the image nor its label is bound.
C7_StartsWithoutImage ==
    ImageFailed =>
    /\ pc \in {"layout", "controls", "results", "update", "mainloop"}
    /\ app.fg_color = "#1a1a1a"
    /\ app.printed \in ImageErrors =>
            app.bg_image = "none" /\ "bg_label" \notin app.widgets
    /\ pc = "mainloop" => StartedUp

\* the image was opened and bound, its label could not be made, and the
\* window is up on the fallback colour
C7_Witness ==
    /\ program = "ModernApp"
    /\ app.printed = "OSError"
    /\ app.bg_image = "rice_field.jpg" /\ "bg_label" \notin app.widgets
    /\ app.fg_color = "#1a1a1a"
    /\ StartedUp

\* C8: in every variant the husk mass is area * yield * 0.22 within
\* floating-point tolerance (it is the float nearest to the exact product,
\* or next to it), whatever the efficiency and the season length.
C8_HuskMass ==
    /\ program = "Rice_Web_App" =>
            Near(script.husk_mass, Lit(st.area * st.yield_per_ha * 22, 100))
    /\ program = "calculate" =>
            /\ Near(gui_locals.total_husk, Lit(args.area * args.paddy_yield * 22, 100))
            /\ Near(old_locals.total_husk, Lit(args.area * args.paddy_yield * 22, 100))

\* a call with valid arguments other than the defaults
C8_Witness ==
    /\ program = "calculate"
    /\ args = [area |-> AREA_MAX_B, paddy_yield |-> YIELD_MAX, eff_pct |-> EFF_MIN]
    /\ gui_locals.total_husk = I(176000)
    /\ old_locals.total_husk = I(176000)

\* C9: variant A with area = 5, yield = 4500, efficiency = 0.70 and
\* seasonDays = 120 gives total_paddy 22500, husk_mass 4950, energy_kwh
\* 13475, biochar_mass 1237.5, methane_flooded 780, methane_awd 450,
\* methane_avoided 330 and co2_eq_tons 9.24.
C9_ScenarioA ==
    (program = "Rice_Web_App" /\ st.area = 5 /\ st.yield_per_ha = 4500
        /\ st.eff_slider = 70 /\ st.season_days = 120) =>
    /\ script.total_paddy = I(22500)
    /\ script.husk_mass = I(4950)
    /\ script.energy_kwh = I(13475)
    /\ script.biochar_mass = Lit(12375, 10)
    /\ script.methane_flooded = I(780)
    /\ script.methane_awd = I(450)
    /\ script.methane_avoided = I(330)
    /\ script.co2_eq_tons = Lit(924, 100)

\* the script has run on the scenario's inputs
C9_Witness ==
    /\ program = "Rice_Web_App"
    /\ st = [area |-> 5, yield_per_ha |-> 4500, eff_slider |-> 70, season_days |-> 120]
    /\ script.raised = "none"
    /\ script.energy_mj = I(48510)

\* C10: variant B with area = 50, paddy_yield = 4500 and gasifier_eff =
\* 0.70 gives total husk 49500 kg, energy 38981.25 kWh within floating-point
\* tolerance, biochar 9900 kg, methane saved 700 kg and CO2-equivalent
\* 19600 kg.
C10_ScenarioB ==
    (program = "calculate" /\ args.area = 50 /\ args.paddy_yield = 4500
        /\ args.eff_pct = 70) =>
    /\ gui_locals.total_husk = I(49500) /\ old_locals.total_husk = I(49500)
    /\ Near(gui_ret.value.energy, Lit(3898125, 100))
    /\ Near(old_ret.value[1], Lit(3898125, 100))
    /\ gui_ret.value.biochar = I(9900) /\ old_ret.value[2] = I(9900)
    /\ gui_locals.ch4_saved = I(700) /\ old_locals.ch4_saved = I(700)
    /\ gui_ret.value.co2 = I(19600) /\ old_ret.value[3] = I(19600)

\* both implementations have been called on the scenario's arguments
C10_Witness ==
    /\ program = "calculate"
    /\ args = [area |-> 50, paddy_yield |-> 4500, eff_pct |-> 70]
    /\ gui_ret.raised = "none" /\ old_ret.raised = "none"
    /\ Near(gui_locals.energy_mj, Lit(1403325, 10))

\* what the variant-A calculation block gives for the area a and the other
\* current inputs
EngineAt(a) ==
    Calculations(I(a), I(st.yield_per_ha), FDiv(I(st.eff_slider), I(100)), I(st.season_days))

\* C11: the scalability chart sweeps the areas 1, 6, ..., 46 (1 to 50 in
\* steps of 5) with the current yield, efficiency and season, and at every
\* swept area its CO2-offset point is the co2_eq_tons and its revenue point
\* is the total_revenue (electricity + biochar + carbon credit) that the
\* calculation block gives for that area, within floating-point tolerance.
C11_ChartIsEngine ==
    program = "Rice_Web_App" =>
    /\ script.areas_range = <<1, 6, 11, 16, 21, 26, 31, 36, 41, 46>>
    /\ \A i \in DOMAIN script.areas_range :
        /\ Near(script.savings_range[i], EngineAt(script.areas_range[i]).co2_eq_tons)
        /\ Near(script.revenue_range[i], EngineAt(script.areas_range[i]).total_revenue)

\* C12: called with the same arguments, the old web app's calculate and
\* RiceHuskMath.calculate return the same energy, biochar, CO2-equivalent
\* and revenue, bit for bit; when profit > 0 both return capex / profit as
\* the payback, and when profit <= 0 they differ in the payback alone, the
\* old web app returning 0 and the desktop engine 99.9.
C12_VariantsAgree ==
    program = "calculate" =>
    /\ gui_ret.raised = "none" /\ old_ret.raised = "none"
    /\ old_ret.value[1] = gui_ret.value.energy
    /\ old_ret.value[2] = gui_ret.value.biochar
    /\ old_ret.value[3] = gui_ret.value.co2
    /\ old_ret.value[4] = gui_ret.value.revenue
    /\ old_locals.capex = gui_locals.capex
    /\ old_locals.profit = gui_locals.profit
    /\ IF Sign(gui_locals.profit) > 0
       THEN /\ gui_ret.value.payback = FDiv(gui_locals.capex, gui_locals.profit)
            /\ old_ret.value[5] = gui_ret.value.payback
       ELSE /\ gui_ret.value.payback = NO_PAYBACK
            /\ old_ret.value[5] = I(0)

\* the first call, of positive profit, returned one payback and one energy
\* from both implementations, and a later call whose profit is not positive
\* has returned the same energy and revenue and the paybacks 99.9 and 0
C12_Witness ==
    /\ program = "calculate"
    /\ first.old_ret.value[5] = first.gui_ret.value.payback
    /\ first.gui_ret.value.payback # NO_PAYBACK
    /\ first.old_ret.value[1] = first.gui_ret.value.energy
    /\ Sign(gui_locals.profit) <= 0 /\ Sign(old_locals.profit) <= 0
    /\ gui_ret.value.payback = NO_PAYBACK
    /\ old_ret.value[5] = I(0)
    /\ old_ret.value[1] = gui_ret.value.energy /\ Sign(gui_ret.value.energy) > 0
    /\ old_ret.value[4] = gui_ret.value.revenue

\* C13: in the desktop window, wherever the three sliders stand within
\* their ranges (area 1..100, yield 2000..8000, efficiency 0.40..0.90), the
\* payback that RiceHuskMath.calculate returns is greater than 10, being the
\* sentinel 99.9 or capex / profit, so the payback label reads "> 10 Years"
\* and the numeric "x.y Years" branch of update_simulation is never taken.
C13_PaybackOverTen ==
    (program = "ModernApp" /\ pc = "mainloop") =>
    /\ FLeq(I(AREA_MIN), app.slider_area) /\ FLeq(app.slider_area, I(AREA_MAX_B))
    /\ FLeq(I(YIELD_MIN), app.slider_yield) /\ FLeq(app.slider_yield, I(YIELD_MAX))
    /\ FLeq(Lit(EFF_MIN, 100), app.slider_eff) /\ FLeq(app.slider_eff, Lit(EFF_MAX, 100))
    /\ FLt(I(10), RiceHuskMath_calculate(app.math_engine, app.slider_area,
                                         app.slider_yield, app.slider_eff).value.payback)
    /\ app.lbl_payback = Text(10, "> Years")

\* the sliders stand at area 6, yield 8000 and efficiency 0.40, where the
\* capacity is just under 5 kW and the profit positive: the payback is
\* capex / profit, not the sentinel, and the label reads "> 10 Years"
C13_Witness ==
    /\ program = "ModernApp" /\ pc = "mainloop"
    /\ app.slider_area = I(6)
    /\ app.slider_yield = I(YIELD_MAX)
    /\ app.slider_eff = Lit(EFF_MIN, 100)
    /\ RiceHuskMath_calculate(app.math_engine, app.slider_area, app.slider_yield,
                              app.slider_eff).value.payback # NO_PAYBACK
    /\ app.lbl_payback = Text(10, "> Years")

====
